---- MODULE Spec2Model ----
(***************************************************************************)
(* Payment-to-ticket fulfilment pipeline of the event-management backend:  *)
(* order creation (OrderService), webhook reconciliation                   *)
(* (WebhookController), ticket issuance, check-in and cancellation         *)
(* (TicketService).  Handlers are async functions; every `await` is a      *)
(* point where another handler may run, so a handler is a process whose    *)
(* steps are the stretches of code between awaits on shared storage.       *)
(*                                                                         *)
(* Money is counted in hundredths of the currency unit (so the 0.01        *)
(* tolerance of the amount check is 1); balances are counted in            *)
(* ten-thousandths, so that amount * (1 - fee/100) stays an integer.       *)
(***************************************************************************)
EXTENDS Integers, Sequences, FiniteSets, TLC

\* ------------------------------------------------------------ bounds
MaxOrders == 1   \* orders createOrder may persist in one behaviour
MaxQty == 2      \* numberOfTicket ranges over 1..MaxQty
MaxRuns == 3     \* handler invocations (deliveries, polls, sweeps, check-ins)
MaxFaults == 1   \* collaborator failures (mail, PDF, provider) injected
MaxTickets == 4  \* ticket rows the store may hold
SweepOrders == 2 \* pending orders before the sweeps of SpecSweep
MaxTime == 3000  \* the clock (Date.now(), milliseconds) stops here

\* ------------------------------------------------------------ program constants
Epsilon == 1                 \* 0.01 in hundredths
PlatformFeePercentage == 1   \* config.PLATFORM_FEE_PERCENTAGE default

Slots == {"a", "b"}          \* concurrently running request handlers

Secret == "FLUTTERWAVE_SECRET_HASH"
Keys == {Secret, "other-key"}

Buyers == {"u1", "u2"}
Owner == "organiser"
Users == Buyers \cup {Owner}

EventIds == {"e1", "e2", "e3", "e4"}
MissingEvent == "e0"

NoPrice == -1                \* event.price undefined
NoTier == [name |-> "", price |-> 0]

ORDER_STATUS ==
    [COMPLETED |-> "completed", PENDING |-> "pending", EXPIRED |-> "expired",
     FAILED |-> "failed", CANCELLED |-> "cancelled",
     PAID_FAILED_TICKETING |-> "paid-failed-ticketing",
     PAID_FAILED_EMAIL |-> "paid-failed-email"]

TRANSACTION_STATUS ==
    [PENDING |-> "pending", SUCCESSFUL |-> "successful", FAILED |-> "failed",
     CANCELLED |-> "cancelled"]

VARIABLES
    events,        \* EventModel collection: id -> [user, price, ticketTypes]
    orders,        \* OrderModel collection, a sequence; an order's _id is its index
    transactions,  \* TransactionModel collection, a sequence
    tickets,       \* TicketModel collection, a sequence; a ticket's _id is its index
    users,         \* UserModel collection: id -> [availableBalance, totalEarnings]
    h,             \* the running handlers: slot -> handler frame
    runs,          \* handler invocations started so far
    faults,        \* collaborator failures injected so far
    creditLog,     \* history: the orders whose settlement incremented the balance
    pay            \* PaymentService: the cached bearer token, with the clock

vars == <<events, orders, transactions, tickets, users, h, runs, faults, creditLog, pay>>

\* ------------------------------------------------------------ helpers
Abs(x) == IF x < 0 THEN -x ELSE x

Range(s) == {s[i] : i \in 1..Len(s)}

ToLowerCase(name) ==
    CASE name = "VIP" -> "vip"
      [] name = "Vip" -> "vip"
      [] name = "REGULAR" -> "regular"
      [] OTHER -> name

RECURSIVE FindFirst(_, _, _)
\* Array.prototype.find: the first element from index i on satisfying the test
FindFirst(seq, i, lowered) ==
    IF i > Len(seq) THEN NoTier
    ELSE IF ToLowerCase(seq[i].name) = lowered THEN seq[i]
    ELSE FindFirst(seq, i + 1, lowered)

OrderRef(n) == <<"order", n>>
ChargeId(k) == <<"charge", k>>

OrderExists(ref) == ref[1] = "order" /\ ref[2] \in 1..Len(orders)

\* ------------------------------------------------------------ handler frames
NoReq == [none |-> TRUE]

Idle ==
    [pc |-> "idle", kind |-> "none", req |-> NoReq, order |-> <<>>, ct |-> <<>>,
     made |-> <<>>, mails |-> <<>>, todo |-> <<>>, res |-> "none", err |-> "none",
     sig |-> <<>>]

Done(frame, res) == [frame EXCEPT !.pc = "done", !.res = res]

\* ------------------------------------------------------------ Event catalogue
\* e1: flat price only; e2: tiers only (one of them free); e3: flat price 0 and two
\* tiers whose names differ only in case; e4: neither a flat price nor a tier.
InitEvents ==
    [e \in EventIds |->
        CASE e = "e1" -> [user |-> Owner, price |-> 500, ticketTypes |-> <<>>]
          [] e = "e2" -> [user |-> Owner, price |-> NoPrice,
                          ticketTypes |-> <<[name |-> "VIP", price |-> 300],
                                            [name |-> "REGULAR", price |-> 0]>>]
          [] e = "e3" -> [user |-> Owner, price |-> 0,
                          ticketTypes |-> <<[name |-> "VIP", price |-> 300],
                                            [name |-> "Vip", price |-> 700]>>]
          [] OTHER -> [user |-> Owner, price |-> NoPrice, ticketTypes |-> <<>>]]

\* ------------------------------------------------------------ OrderService.createOrder
\* The tier the request names: event.ticketTypes.find(case-insensitive name match).
fullTicketType(event, ticketType) ==
    IF ticketType = "" THEN NoTier
    ELSE FindFirst(event.ticketTypes, 1, ToLowerCase(ticketType))

\* The outcome of the price computation: [ok, price] or the error raised.
OrderPrice(event, ticketType, numberOfTicket) ==
    LET tier == fullTicketType(event, ticketType) IN
    IF ticketType # "" /\ tier = NoTier
      THEN [ok |-> FALSE, err |-> "NotFound", price |-> 0]
    ELSE IF tier # NoTier
      THEN [ok |-> TRUE, err |-> "none", price |-> tier.price * numberOfTicket]
    ELSE IF event.price # NoPrice /\ event.price # 0
      THEN [ok |-> TRUE, err |-> "none", price |-> event.price * numberOfTicket]
    ELSE [ok |-> FALSE, err |-> "UnableToComplete", price |-> 0]

\* The paths of the order schema. An update of a path the schema does not declare
\* is not stored.
OrderPaths ==
    {"user", "event", "ticketType", "numberOfTicket", "totalPrice", "status", "purchaseDate"}

\* The paths of the transaction schema; as for orders, an update keeps only these.
TransactionPaths ==
    {"order", "user", "reference", "providerTransactionId", "amount", "currency",
     "paymentMethod", "status", "virtualAccount", "logs", "metadata", "initiatedAt",
     "completedAt", "failedAt"}

NewOrder(user, data, price) ==
    [user |-> user, event |-> data.event,
     ticketType |-> fullTicketType(events[data.event], data.ticketType),
     numberOfTicket |-> data.numberOfTicket, totalPrice |-> price,
     status |-> ORDER_STATUS.PENDING, paymentReference |-> <<>>,
     failureReason |-> <<>>]

\* PaymentService.generateOrderPayment: the transaction row of a new order.
NewTransaction(user, orderId, order) ==
    [order |-> orderId, user |-> user, reference |-> OrderRef(orderId),
     amount |-> order.totalPrice, status |-> TRANSACTION_STATUS.PENDING, logs |-> <<>>,
     failureReason |-> <<>>]

\* createOrder as one request: event lookup, tier lookup, price, order row, then
\* the provider calls of generateOrderPayment (providerOk: whether they succeed)
\* and the transaction row.
createOrder(s, user, data, providerOk) ==
    /\ h[s].pc = "idle"
    /\ Len(orders) < MaxOrders
    /\ providerOk \/ faults < MaxFaults
    /\ LET frame == [Idle EXCEPT !.kind = "createOrder", !.req = data] IN
       IF data.event \notin EventIds
         THEN /\ h' = [h EXCEPT ![s] = Done(frame, "NotFound")]
              /\ UNCHANGED <<orders, transactions, faults>>
       ELSE LET p == OrderPrice(events[data.event], data.ticketType, data.numberOfTicket) IN
         IF ~p.ok
           THEN /\ h' = [h EXCEPT ![s] = Done(frame, p.err)]
                /\ UNCHANGED <<orders, transactions, faults>>
         ELSE LET order == NewOrder(user, data, p.price)
                  id == Len(orders) + 1 IN
              /\ orders' = Append(orders, order)
              /\ IF providerOk
                   THEN /\ transactions' = Append(transactions, NewTransaction(user, id, order))
                        /\ h' = [h EXCEPT ![s] = Done([frame EXCEPT !.made = <<id>>], "ok")]
                        /\ UNCHANGED faults
                   ELSE /\ h' = [h EXCEPT ![s] = Done([frame EXCEPT !.made = <<id>>], "ProviderError")]
                        /\ faults' = faults + 1
                        /\ UNCHANGED transactions
    /\ UNCHANGED <<events, tickets, users, runs, creditLog, pay>>

\* ------------------------------------------------------------ EventService.updateEventById
\* PATCH /:id as one request: verifyOwnership (NotFound for a missing event,
\* unauthorized for another user's), then updateById with the fields given.
updateEventById(s, userId, eventId, eventData) ==
    /\ h[s].pc = "idle"
    /\ runs < MaxRuns
    /\ runs' = runs + 1
    /\ LET frame == [Idle EXCEPT !.kind = "updateEvent"] IN
       IF eventId \notin EventIds
         THEN /\ h' = [h EXCEPT ![s] = Done(frame, "NotFound")]
              /\ UNCHANGED events
       ELSE IF events[eventId].user # userId
         THEN /\ h' = [h EXCEPT ![s] = Done(frame, "unauthorized")]
              /\ UNCHANGED events
       ELSE /\ h' = [h EXCEPT ![s] = Done(frame, "200")]
            /\ events' = [events EXCEPT ![eventId] =
                             [path \in DOMAIN @ |->
                                 IF path \in DOMAIN eventData THEN eventData[path]
                                 ELSE @[path]]]
    /\ UNCHANGED <<orders, transactions, tickets, users, faults, creditLog, pay>>

\* ------------------------------------------------------------ PaymentService.getAccessToken
\* The steps of the clock, in milliseconds
Ticks == {500, 1000}

\* expires_in of a token response, in seconds
Lifetimes == {1, 2}

\* accessToken, expiresIn and lastTokenRefreshTime are undefined (<<>>) until the
\* first authenticate; now is Date.now(). pc, checkedAt, issued and out record
\* the call in progress, the time of its expiry check, the tokens issued so far
\* and what the last call returned.
InitPay ==
    [accessToken |-> <<>>, expiresIn |-> <<>>, lastTokenRefreshTime |-> <<>>,
     now |-> 500, pc |-> "idle", checkedAt |-> 500, issued |-> 0, out |-> <<>>]

\* !x for an optional number
Falsy(x) == x = <<>> \/ x[1] = 0

\* A variant of the expiry test that lets the token live one instant longer.
isExpiredLate(p) ==
    \/ p.accessToken = <<>>
    \/ Falsy(p.expiresIn)
    \/ Falsy(p.lastTokenRefreshTime)
    \/ p.now - p.lastTokenRefreshTime[1] > p.expiresIn[1] * 1000

\* !accessToken || !expiresIn || !lastTokenRefreshTime
\*   || Date.now() - lastTokenRefreshTime >= expiresIn * 1000
isExpired(p) ==
    \/ p.accessToken = <<>>
    \/ Falsy(p.expiresIn)
    \/ Falsy(p.lastTokenRefreshTime)
    \/ p.now - p.lastTokenRefreshTime[1] >= p.expiresIn[1] * 1000

\* The expiry test of a call; a cached token is returned at once.
getAccessToken ==
    /\ pay.pc = "idle"
    /\ pay' = IF isExpired(pay)
                THEN [pay EXCEPT !.pc = "auth", !.checkedAt = pay.now, !.out = <<>>]
                ELSE [pay EXCEPT !.checkedAt = pay.now,
                                 !.out = <<[token |-> pay.accessToken[1],
                                            checkedAt |-> pay.now,
                                            issuedAt |-> pay.lastTokenRefreshTime[1],
                                            expiresIn |-> pay.expiresIn[1]]>>]
    /\ UNCHANGED <<events, orders, transactions, tickets, users, h, runs, faults, creditLog>>

\* The token request answers: the fields are stored with the time of the
\* answer, and the call returns the new token.
authenticate(expires_in) ==
    /\ pay.pc = "auth"
    /\ pay' = [pay EXCEPT !.accessToken = <<pay.issued + 1>>,
                          !.expiresIn = <<expires_in>>,
                          !.lastTokenRefreshTime = <<pay.now>>,
                          !.issued = pay.issued + 1,
                          !.pc = "idle",
                          !.out = <<[token |-> pay.issued + 1,
                                     checkedAt |-> pay.checkedAt,
                                     issuedAt |-> pay.now,
                                     expiresIn |-> expires_in]>>]
    /\ UNCHANGED <<events, orders, transactions, tickets, users, h, runs, faults, creditLog>>

\* The token request fails: axios rejects, nothing is stored, the call rejects.
authenticateFails ==
    /\ pay.pc = "auth"
    /\ faults < MaxFaults
    /\ faults' = faults + 1
    /\ pay' = [pay EXCEPT !.pc = "idle"]
    /\ UNCHANGED <<events, orders, transactions, tickets, users, h, runs, creditLog>>

\* Time passes, also while a token request is under way.
Elapse(d) ==
    /\ pay.now + d <= MaxTime
    /\ pay' = [pay EXCEPT !.now = pay.now + d]
    /\ UNCHANGED <<events, orders, transactions, tickets, users, h, runs, faults, creditLog>>

\* The handler has answered; its frame is dropped.
Finish(s) ==
    /\ h[s].pc = "done"
    /\ h' = [h EXCEPT ![s] = Idle]
    /\ UNCHANGED <<events, orders, transactions, tickets, users, runs, faults, creditLog, pay>>

\* ------------------------------------------------------------ storage (DBService)
\* findById with populate ['user', 'event']: the order row as read, with the
\* fields of the populated event the handlers use.
findById(ref) ==
    IF OrderExists(ref)
      THEN LET o == orders[ref[2]] IN
           <<[id |-> ref[2], status |-> o.status, totalPrice |-> o.totalPrice,
              numberOfTicket |-> o.numberOfTicket, ticketType |-> o.ticketType,
              user |-> o.user, event |-> o.event,
              eventPrice |-> events[o.event].price,
              eventUser |-> events[o.event].user]>>
      ELSE <<>>

RECURSIVE FirstIndex(_, _, _)
\* findOne({reference}): index of the first transaction with that reference, or 0
FirstIndex(txs, i, reference) ==
    IF i > Len(txs) THEN 0
    ELSE IF txs[i].reference = reference THEN i
    ELSE FirstIndex(txs, i + 1, reference)

\* transactionService.update(filter, data): the first matching row gets the fields
\* of data the schema keeps; no matching row, no change.
UpdateTransaction(txs, reference, data) ==
    LET i == FirstIndex(txs, 1, reference) IN
    IF i = 0 THEN txs
    ELSE [txs EXCEPT ![i].status = data.status, ![i].reference = data.reference,
                     ![i].failureReason =
                         IF "failureReason" \in DOMAIN data \cap TransactionPaths
                           THEN <<data.failureReason>> ELSE @]

\* userService.updateById(id, {$inc: {availableBalance, totalEarnings}})
IncBalance(us, id, by) ==
    [us EXCEPT ![id].availableBalance = @ + by, ![id].totalEarnings = @ + by]

\* ------------------------------------------------------------ mail
Mail(template, about, x, y) == [template |-> template, about |-> about, x |-> x, y |-> y]

Sent(frame, mail) == [frame EXCEPT !.mails = Append(@, mail)]

\* ------------------------------------------------------------ settlement
\* amount - amount * fee/100, in ten-thousandths
CreatorEarnings(amount) == amount * 100 - amount * PlatformFeePercentage

\* ------------------------------------------------------------ the QR code
\* QRCode.toDataURL(text): the PNG image of the code, as a data URL. The text is
\* what a scanner reads back from the image.
toDataURL(text) == <<"data:image/png;base64", text>>

Payload(qrCode) == qrCode[2]

uniqueIdentifier(order, i) == <<order, i>>

NewTicket(ct, i) ==
    [user |-> ct.user, event |-> ct.event, order |-> ct.order,
     ticketType |-> ct.ticketType, price |-> ct.price,
     qrCode |-> toDataURL(uniqueIdentifier(ct.order, i)),
     isUsed |-> FALSE, cancelled |-> FALSE]

\* ------------------------------------------------------------ control flow
IsSuccessStatus(status) == status \in {"successful", "succeeded"}

IsFailureStatus(status) == status \in {"failed", "cancelled"}

\* handleSuccessfulPayment / handleFailedPayment returned normally to its caller:
\* the webhook answers 200, the manual verification answers success, the sweep
\* goes on with its next order.
\* A variant that answers 404 when the handler found no order.
ReturnedRejects(frame) ==
    IF frame.kind = "sweep" THEN [frame EXCEPT !.pc = "sw_next"]
    ELSE IF frame.order = <<>> THEN Done(frame, "NotFound")
    ELSE Done(frame, "200")

Returned(frame) ==
    IF frame.kind = "sweep" THEN [frame EXCEPT !.pc = "sw_next"]
    ELSE Done(frame, "200")

\* An error left the handler body. The webhook reports it to the admin and
\* passes it on; the manual verification and the ticket endpoints pass it on;
\* the sweep logs it and goes on with its next order.
ThrownAborts(frame, err) ==
    LET f == [frame EXCEPT !.err = err] IN
    CASE frame.kind = "webhook" ->
            Done(Sent(f, Mail("webhook-error", frame.req.ref, 0, 0)), "error")
      [] OTHER -> Done(f, "error")

Thrown(frame, err) ==
    LET f == [frame EXCEPT !.err = err] IN
    CASE frame.kind = "sweep" -> [f EXCEPT !.pc = "sw_next"]
      [] frame.kind = "webhook" ->
            Done(Sent(f, Mail("webhook-error", frame.req.ref, 0, 0)), "error")
      [] OTHER -> Done(f, "error")

\* ------------------------------------------------------------ TicketService.createTicketAndSendMail
\* Entry: Event.findById and User.findById, NotFound before any ticket is written.
EnterIssuer(frame, ct) ==
    IF ct.event \notin EventIds \/ ct.user \notin Users
      THEN Thrown(frame, "NotFound")
      ELSE [frame EXCEPT !.pc = "ct_loop", !.ct = <<[ct EXCEPT !.i = 0]>>, !.made = <<>>]

\* One iteration of the loop: QR image, Ticket.create, PDF.
IssueOne(s) ==
    /\ h[s].pc = "ct_loop"
    /\ LET ct == h[s].ct[1] IN
       /\ ct.i < ct.count
       /\ Len(tickets) < MaxTickets
       /\ tickets' = Append(tickets, NewTicket(ct, ct.i + 1))
       /\ \/ /\ h' = [h EXCEPT ![s].ct = <<[ct EXCEPT !.i = ct.i + 1]>>,
                               ![s].made = Append(@, Len(tickets) + 1)]
             /\ UNCHANGED faults
          \/ \* generateTicketPDF rejects after the row was written
             /\ faults < MaxFaults
             /\ faults' = faults + 1
             /\ h' = [h EXCEPT ![s] = Thrown(h[s], "PdfError")]
    /\ UNCHANGED <<events, orders, transactions, users, runs, creditLog, pay>>

\* A variant that catches the failure of an iteration and goes on with the next.
IssueSkips(s) ==
    /\ h[s].pc = "ct_loop"
    /\ h[s].ct[1].i < h[s].ct[1].count
    /\ faults < MaxFaults
    /\ faults' = faults + 1
    /\ h' = [h EXCEPT ![s].ct = <<[h[s].ct[1] EXCEPT !.i = @ + 1]>>]
    /\ UNCHANGED <<events, orders, transactions, tickets, users, runs, creditLog, pay>>

\* QRCode.toDataURL or Ticket.create rejects: the iteration writes nothing.
IssueFails(s) ==
    /\ h[s].pc = "ct_loop"
    /\ h[s].ct[1].i < h[s].ct[1].count
    /\ faults < MaxFaults
    /\ faults' = faults + 1
    /\ h' = [h EXCEPT ![s] = Thrown(h[s], "CreateError")]
    /\ UNCHANGED <<events, orders, transactions, tickets, users, runs, creditLog, pay>>

\* After the loop: the ticket mail, and the bundle mail when count > 1.
\* What follows a normal return depends on the caller.
TicketMails(frame) ==
    LET ct == frame.ct[1]
        one == Sent(frame, Mail("ticket", ct.order, frame.made[1], 0)) IN
    IF ct.count > 1 THEN Sent(one, Mail("bulk-tickets", ct.order, ct.count, 0)) ELSE one

SendTickets(s) ==
    /\ h[s].pc = "ct_loop"
    /\ h[s].ct[1].i >= h[s].ct[1].count
    /\ \/ /\ h[s].made # <<>>
          /\ h' = [h EXCEPT ![s] =
                     IF h[s].kind = "createTickets"
                       THEN Done(TicketMails(h[s]), "200")
                       ELSE [TicketMails(h[s]) EXCEPT !.pc = "hs_settle"]]
          /\ UNCHANGED faults
       \/ \* createdTickets[0] is undefined when count < 1
          /\ h[s].made = <<>>
          /\ h' = [h EXCEPT ![s] = Thrown(h[s], "TypeError")]
          /\ UNCHANGED faults
       \/ \* the mail transport (or the bundle PDF) fails
          /\ h[s].made # <<>>
          /\ faults < MaxFaults
          /\ faults' = faults + 1
          /\ h' = [h EXCEPT ![s] = Thrown(h[s], "MailError")]
    /\ UNCHANGED <<events, orders, transactions, tickets, users, runs, creditLog, pay>>

\* ------------------------------------------------------------ PaymentService.isValidWebhook
\* The request body as received (req.rawBody) and as parsed (req.body.data).
rawBody(data) == <<"raw", data>>

\* HMAC-SHA256 of a body under a key, base64: equal digests only for equal inputs.
Hmac(key, raw) == <<"hmac-sha256", key, raw>>

\* A variant of the signature check that accepts a digest under any key.
isValidUnderAnyKey(raw, signature) == \E k \in Keys : Hmac(k, raw) = signature

\* hash === signature, the hash computed over the raw body with the secret hash
isValidWebhook(raw, signature) == Hmac(Secret, raw) = signature

\* ------------------------------------------------------------ WebhookController.orderTransactionCompleted
orderTransactionCompleted(s, data, signature) ==
    /\ h[s].pc = "idle"
    /\ runs < MaxRuns
    /\ runs' = runs + 1
    /\ LET frame == [Idle EXCEPT !.kind = "webhook", !.req = data, !.sig = signature] IN
       h' = [h EXCEPT ![s] =
               IF ~isValidWebhook(rawBody(data), signature) THEN Done(frame, "unauthorized")
               ELSE IF IsSuccessStatus(data.status) THEN [frame EXCEPT !.pc = "hs_find"]
               ELSE IF IsFailureStatus(data.status) THEN [frame EXCEPT !.pc = "hf_find"]
               ELSE Done(frame, "200")]
    /\ UNCHANGED <<events, orders, transactions, tickets, users, faults, creditLog, pay>>

\* ------------------------------------------------------------ WebhookController.handleSuccessfulPayment
\* A variant of the amount check that compares without the absolute value.
AmountAbove(amount, totalPrice) == amount - totalPrice > Epsilon

\* Math.abs(parseFloat(amount) - order.totalPrice) > 0.01
AmountMismatch(amount, totalPrice) == Abs(amount - totalPrice) > Epsilon

\* A variant of the replay check that never stops.
NeverCompleted(order) == FALSE

\* order.status === ORDER_STATUS.COMPLETED
AlreadyCompleted(order) == order.status = ORDER_STATUS.COMPLETED

\* The order lookup and the three early exits: unknown order (admin alert),
\* order already completed, amount mismatch (admin alert).
\* A variant that returns for an unknown reference without alerting the admin.
FindOrderForSuccessSilent(s) ==
    /\ h[s].pc = "hs_find"
    /\ LET req == h[s].req
           found == findById(req.ref)
           frame == [h[s] EXCEPT !.order = found] IN
       \/ /\ found = <<>>
          /\ h' = [h EXCEPT ![s] = Returned(frame)]
          /\ UNCHANGED faults
       \/ /\ found # <<>>
          /\ AlreadyCompleted(found[1])
          /\ h' = [h EXCEPT ![s] = Returned(frame)]
          /\ UNCHANGED faults
       \/ /\ found # <<>>
          /\ ~AlreadyCompleted(found[1])
          /\ AmountMismatch(req.amount, found[1].totalPrice)
          /\ h' = [h EXCEPT ![s] =
                     Returned(Sent(frame, Mail("payment-mismatch-alert", req.ref,
                                               found[1].totalPrice, req.amount)))]
          /\ UNCHANGED faults
       \/ /\ found # <<>>
          /\ ~AlreadyCompleted(found[1])
          /\ ~AmountMismatch(req.amount, found[1].totalPrice)
          /\ h' = [h EXCEPT ![s] = [frame EXCEPT !.pc = "hs_order"]]
          /\ UNCHANGED faults
       \/ \* the admin alert of an early exit cannot be sent
          /\ IF found = <<>> THEN TRUE
             ELSE /\ ~AlreadyCompleted(found[1])
                  /\ AmountMismatch(req.amount, found[1].totalPrice)
          /\ faults < MaxFaults
          /\ faults' = faults + 1
          /\ h' = [h EXCEPT ![s] = Thrown(frame, "MailError")]
    /\ UNCHANGED <<events, orders, transactions, tickets, users, runs, creditLog, pay>>

FindOrderForSuccess(s) ==
    /\ h[s].pc = "hs_find"
    /\ LET req == h[s].req
           found == findById(req.ref)
           frame == [h[s] EXCEPT !.order = found] IN
       \/ /\ found = <<>>
          /\ h' = [h EXCEPT ![s] =
                     Returned(Sent(frame, Mail("missing-order-alert", req.ref, req.amount, 0)))]
          /\ UNCHANGED faults
       \/ /\ found # <<>>
          /\ AlreadyCompleted(found[1])
          /\ h' = [h EXCEPT ![s] = Returned(frame)]
          /\ UNCHANGED faults
       \/ /\ found # <<>>
          /\ ~AlreadyCompleted(found[1])
          /\ AmountMismatch(req.amount, found[1].totalPrice)
          /\ h' = [h EXCEPT ![s] =
                     Returned(Sent(frame, Mail("payment-mismatch-alert", req.ref,
                                               found[1].totalPrice, req.amount)))]
          /\ UNCHANGED faults
       \/ /\ found # <<>>
          /\ ~AlreadyCompleted(found[1])
          /\ ~AmountMismatch(req.amount, found[1].totalPrice)
          /\ h' = [h EXCEPT ![s] = [frame EXCEPT !.pc = "hs_order"]]
          /\ UNCHANGED faults
       \/ \* the admin alert of an early exit cannot be sent
          /\ IF found = <<>> THEN TRUE
             ELSE /\ ~AlreadyCompleted(found[1])
                  /\ AmountMismatch(req.amount, found[1].totalPrice)
          /\ faults < MaxFaults
          /\ faults' = faults + 1
          /\ h' = [h EXCEPT ![s] = Thrown(frame, "MailError")]
    /\ UNCHANGED <<events, orders, transactions, tickets, users, runs, creditLog, pay>>

\* A variant that also stores the amount received as the order's total.
CompleteOrderReprices(s) ==
    /\ h[s].pc = "hs_order"
    /\ orders' = [orders EXCEPT ![h[s].order[1].id].status = ORDER_STATUS.COMPLETED,
                                ![h[s].order[1].id].totalPrice = h[s].req.amount]
    /\ h' = [h EXCEPT ![s].pc = "hs_txn"]
    /\ UNCHANGED <<events, transactions, tickets, users, runs, faults, creditLog, pay>>

\* orderService.updateById(order._id, {status: COMPLETED, paymentReference, ...})
CompleteOrder(s) ==
    /\ h[s].pc = "hs_order"
    /\ orders' = [orders EXCEPT ![h[s].order[1].id].status = ORDER_STATUS.COMPLETED,
                                ![h[s].order[1].id].paymentReference =
                                    IF "paymentReference" \in OrderPaths
                                      THEN <<h[s].req.id>> ELSE @]
    /\ h' = [h EXCEPT ![s].pc = "hs_txn"]
    /\ UNCHANGED <<events, transactions, tickets, users, runs, faults, creditLog, pay>>

\* The arguments of the issuer: the order's tier snapshot and its price, or no
\* tier and the event's flat price (0 when it has none).
IssuerArgs(order) ==
    [user |-> order.user, event |-> order.event, order |-> order.id,
     ticketType |-> order.ticketType,
     price |-> IF order.ticketType # NoTier THEN order.ticketType.price
               ELSE IF order.eventPrice = NoPrice THEN 0 ELSE order.eventPrice,
     count |-> order.numberOfTicket, i |-> 0]

\* transactionService.update({reference}, {status: SUCCESSFUL, reference: transactionId, ...})
\* and the entry into the issuer.
CompleteTransaction(s) ==
    /\ h[s].pc = "hs_txn"
    /\ transactions' = UpdateTransaction(transactions, h[s].req.ref,
                          [status |-> TRANSACTION_STATUS.SUCCESSFUL, reference |-> h[s].req.id])
    /\ h' = [h EXCEPT ![s] = EnterIssuer(h[s], IssuerArgs(h[s].order[1]))]
    /\ UNCHANGED <<events, orders, tickets, users, runs, faults, creditLog, pay>>

\* A variant in which a failed balance update or confirmation mail is thrown.
SettleThrows(s, balanceOk, confirmOk, adminOk) ==
    /\ h[s].pc = "hs_settle"
    /\ LET order == h[s].order[1]
           failed == (IF balanceOk THEN 0 ELSE 1) + (IF confirmOk THEN 0 ELSE 1)
                     + (IF adminOk THEN 0 ELSE 1)
           f1 == IF confirmOk
                   THEN Sent(h[s], Mail("order-confirmation", h[s].req.ref, Len(h[s].made), 0))
                   ELSE h[s] IN
       /\ faults + failed <= MaxFaults
       /\ faults' = faults + failed
       /\ IF balanceOk
            THEN /\ users' = IncBalance(users, order.eventUser, CreatorEarnings(h[s].req.amount))
                 /\ creditLog' = Append(creditLog, order.id)
            ELSE UNCHANGED <<users, creditLog>>
       /\ h' = [h EXCEPT ![s] =
                  IF adminOk /\ balanceOk /\ confirmOk
                    THEN Returned(Sent(f1, Mail("payment-success-notification",
                                                h[s].req.ref, h[s].req.amount, Len(h[s].made))))
                    ELSE Thrown(f1, "MailError")]
    /\ UNCHANGED <<events, orders, transactions, tickets, runs, pay>>

\* updateEventCreatorBalance (errors logged, not thrown), sendOrderConfirmationEmail
\* (errors logged, not thrown), then the admin's success notification.
Settle(s, balanceOk, confirmOk, adminOk) ==
    /\ h[s].pc = "hs_settle"
    /\ LET order == h[s].order[1]
           failed == (IF balanceOk THEN 0 ELSE 1) + (IF confirmOk THEN 0 ELSE 1)
                     + (IF adminOk THEN 0 ELSE 1)
           f1 == IF confirmOk
                   THEN Sent(h[s], Mail("order-confirmation", h[s].req.ref, Len(h[s].made), 0))
                   ELSE h[s] IN
       /\ faults + failed <= MaxFaults
       /\ faults' = faults + failed
       /\ IF balanceOk
            THEN /\ users' = IncBalance(users, order.eventUser, CreatorEarnings(h[s].req.amount))
                 /\ creditLog' = Append(creditLog, order.id)
            ELSE UNCHANGED <<users, creditLog>>
       /\ h' = [h EXCEPT ![s] =
                  IF adminOk
                    THEN Returned(Sent(f1, Mail("payment-success-notification",
                                                h[s].req.ref, h[s].req.amount, Len(h[s].made))))
                    ELSE Thrown(f1, "MailError")]
    /\ UNCHANGED <<events, orders, transactions, tickets, runs, pay>>

\* ------------------------------------------------------------ WebhookController.handleFailedPayment
\* webhookData.processor_response || webhookData.gateway_response || 'Payment failed'
failureReason(webhookData) ==
    IF "processor_response" \in DOMAIN webhookData THEN webhookData.processor_response
    ELSE IF "gateway_response" \in DOMAIN webhookData THEN webhookData.gateway_response
    ELSE "Payment failed"

FindOrderForFailure(s) ==
    /\ h[s].pc = "hf_find"
    /\ LET found == findById(h[s].req.ref) IN
       h' = [h EXCEPT ![s] =
               IF found = <<>> THEN Returned([h[s] EXCEPT !.order = found])
               ELSE [h[s] EXCEPT !.order = found, !.pc = "hf_order"]]
    /\ UNCHANGED <<events, orders, transactions, tickets, users, runs, faults, creditLog, pay>>

\* orderService.updateById(order._id, {status: FAILED, failureReason, failedAt})
FailOrder(s) ==
    /\ h[s].pc = "hf_order"
    /\ orders' = [orders EXCEPT ![h[s].order[1].id].status = ORDER_STATUS.FAILED,
                                ![h[s].order[1].id].failureReason =
                                    IF "failureReason" \in OrderPaths
                                      THEN <<failureReason(h[s].req)>> ELSE @]
    /\ h' = [h EXCEPT ![s].pc = "hf_txn"]
    /\ UNCHANGED <<events, transactions, tickets, users, runs, faults, creditLog, pay>>

\* transactionService.update({reference}, {status: FAILED, ...}) and the buyer's notice
FailTransaction(s) ==
    /\ h[s].pc = "hf_txn"
    /\ transactions' = UpdateTransaction(transactions, h[s].req.ref,
                          [status |-> TRANSACTION_STATUS.FAILED, reference |-> h[s].req.ref,
                           failureReason |-> failureReason(h[s].req)])
    /\ \/ /\ h' = [h EXCEPT ![s] =
                     Returned(Sent(h[s], Mail("payment-failed", h[s].req.ref,
                                              h[s].order[1].totalPrice, 0)))]
          /\ UNCHANGED faults
       \/ /\ faults < MaxFaults
          /\ faults' = faults + 1
          /\ h' = [h EXCEPT ![s] = Thrown(h[s], "MailError")]
    /\ UNCHANGED <<events, orders, tickets, users, runs, creditLog, pay>>

\* ------------------------------------------------------------ WebhookController.verifyPaymentStatus
\* The manual verification: the provider is polled (PaymentService.verifyTransaction)
\* and answers with an envelope {status, data}, or the call fails.
verifyPaymentStatus(s, hasId, providerOk, result) ==
    /\ h[s].pc = "idle"
    /\ runs < MaxRuns
    /\ runs' = runs + 1
    /\ LET frame == [Idle EXCEPT !.kind = "manual", !.req = result.data] IN
       IF ~hasId
         THEN /\ h' = [h EXCEPT ![s] = Done(frame, "BadRequest")]
              /\ UNCHANGED faults
       ELSE IF ~providerOk
         THEN /\ faults < MaxFaults
              /\ faults' = faults + 1
              /\ h' = [h EXCEPT ![s] = Thrown(frame, "UnableToComplete")]
       ELSE /\ h' = [h EXCEPT ![s] =
                       IF result.status = "success" THEN [frame EXCEPT !.pc = "hs_find"]
                       ELSE Done(frame, "200")]
            /\ UNCHANGED faults
    /\ UNCHANGED <<events, orders, transactions, tickets, users, creditLog, pay>>

\* ------------------------------------------------------------ WebhookController.checkPendingOrders
RECURSIVE Ascending(_)
\* a set of order ids as the list the query returns
Ascending(S) ==
    IF S = {} THEN <<>>
    ELSE LET m == CHOOSE x \in S : \A y \in S : x <= y IN <<m>> \o Ascending(S \ {m})

PendingOrders == {n \in 1..Len(orders) : orders[n].status = ORDER_STATUS.PENDING}

\* The query: the pending orders created between 24 hours and 10 minutes ago
\* (inWindow: those of the pending orders whose age lies in the window).
checkPendingOrders(s, inWindow) ==
    /\ h[s].pc = "idle"
    /\ runs < MaxRuns
    /\ runs' = runs + 1
    /\ inWindow \subseteq PendingOrders
    /\ h' = [h EXCEPT ![s] = [Idle EXCEPT !.kind = "sweep", !.pc = "sw_next",
                                          !.todo = Ascending(inWindow)]]
    /\ UNCHANGED <<events, orders, transactions, tickets, users, faults, creditLog, pay>>

\* One turn of the sweep's loop: poll the provider for the order and reconcile.
SweepOrder(s, providerOk, result) ==
    /\ h[s].pc = "sw_next"
    /\ h[s].todo # <<>>
    /\ LET frame == [h[s] EXCEPT !.todo = Tail(@), !.req = NoReq, !.order = <<>>,
                                 !.ct = <<>>, !.made = <<>>, !.err = "none"]
           polled == [frame EXCEPT !.req = result.data] IN
       IF ~providerOk
         THEN /\ faults < MaxFaults
              /\ faults' = faults + 1
              /\ h' = [h EXCEPT ![s] = Thrown(frame, "UnableToComplete")]
       ELSE /\ h' = [h EXCEPT ![s] =
                       IF result.status = "successful" THEN [polled EXCEPT !.pc = "hs_find"]
                       ELSE IF IsFailureStatus(result.status) THEN [polled EXCEPT !.pc = "hf_find"]
                       ELSE frame]
            /\ UNCHANGED faults
    /\ UNCHANGED <<events, orders, transactions, tickets, users, runs, creditLog, pay>>

SweepEnds(s) ==
    /\ h[s].pc = "sw_next"
    /\ h[s].todo = <<>>
    /\ h' = [h EXCEPT ![s] = Done(h[s], "none")]
    /\ UNCHANGED <<events, orders, transactions, tickets, users, runs, faults, creditLog, pay>>

\* ------------------------------------------------------------ TicketController.createTickets
\* POST /create-ticket: the issuer called with the fields of the request body.
createTickets(s, body) ==
    /\ h[s].pc = "idle"
    /\ runs < MaxRuns
    /\ runs' = runs + 1
    /\ LET frame == [Idle EXCEPT !.kind = "createTickets", !.req = body] IN
       h' = [h EXCEPT ![s] =
               IF body.price = 0 \/ body.count = 0 THEN Done(frame, "400")
               ELSE EnterIssuer(frame, [user |-> body.user, event |-> body.event,
                                        order |-> body.order, ticketType |-> NoTier,
                                        price |-> body.price, count |-> body.count, i |-> 0])]
    /\ UNCHANGED <<events, orders, transactions, tickets, users, faults, creditLog, pay>>

\* ------------------------------------------------------------ TicketService.verifyTicket
\* A presented code: the _id of a ticket, the text a scanner reads from a ticket's
\* QR image ("<order>-<n>"), or a piece of text that occurs in every data URL.
IdCode(k) == [kind |-> "id", id |-> k, text |-> <<0, 0>>]
TextCode(order, n) == [kind |-> "text", id |-> 0, text |-> uniqueIdentifier(order, n)]
UrlPiece == [kind |-> "piece", id |-> 0, text |-> <<0, 0>>]

\* {qrCode: {$regex: ticketCode}}: the code occurs in the stored data URL. The
\* image bytes of the URL are not the text the image shows.
RegexTest(code, qrCode) == code.kind = "piece"

\* {_id: ticketCode}: only a well-formed ObjectId can be cast
Castable(code) == code.kind = "id"

RECURSIVE FindTicket(_, _, _)
\* Ticket.findOne({$or: [{qrCode: {$regex}}, {_id}]}): the first row in storage order
FindTicket(rows, i, code) ==
    IF i > Len(rows) THEN 0
    ELSE IF RegexTest(code, rows[i].qrCode) \/ (code.kind = "id" /\ code.id = i) THEN i
    ELSE FindTicket(rows, i + 1, code)

\* The lookup and the two checks.
verifyTicket(s, ticketCode) ==
    /\ h[s].pc = "idle"
    /\ runs < MaxRuns
    /\ runs' = runs + 1
    /\ LET frame == [Idle EXCEPT !.kind = "verifyTicket", !.req = ticketCode]
           t == FindTicket(tickets, 1, ticketCode) IN
       h' = [h EXCEPT ![s] =
               IF ~Castable(ticketCode) THEN Thrown(frame, "CastError")
               ELSE IF t = 0 THEN Thrown(frame, "NotFound")
               ELSE IF tickets[t].isUsed THEN Thrown([frame EXCEPT !.made = <<t>>], "Conflict")
               ELSE [frame EXCEPT !.pc = "vt_save", !.made = <<t>>]]
    /\ UNCHANGED <<events, orders, transactions, tickets, users, faults, creditLog, pay>>

\* A variant of the save that marks every ticket of the found ticket's order.
MarkUsedOrder(s) ==
    /\ h[s].pc = "vt_save"
    /\ tickets' = [t \in 1..Len(tickets) |->
                      IF tickets[t].order = tickets[h[s].made[1]].order
                      THEN [tickets[t] EXCEPT !.isUsed = TRUE] ELSE tickets[t]]
    /\ h' = [h EXCEPT ![s] = Done(h[s], "200")]
    /\ UNCHANGED <<events, orders, transactions, users, runs, faults, creditLog, pay>>

\* ticket.isUsed = true; ticket.save()
MarkUsed(s) ==
    /\ h[s].pc = "vt_save"
    /\ tickets' = [tickets EXCEPT ![h[s].made[1]].isUsed = TRUE]
    /\ h' = [h EXCEPT ![s] = Done(h[s], "200")]
    /\ UNCHANGED <<events, orders, transactions, users, runs, faults, creditLog, pay>>

\* ------------------------------------------------------------ TicketService.cancelTickets
\* A variant of the query without the owner filter.
CancellableOfAnyone(ticketIds, userId) ==
    {t \in 1..Len(tickets) : t \in Range(ticketIds) /\ ~tickets[t].isUsed}

\* Ticket.find({_id: {$in: ticketIds}, user: userId, isUsed: false})
Cancellable(ticketIds, userId) ==
    {t \in 1..Len(tickets) :
        t \in Range(ticketIds) /\ tickets[t].user = userId /\ ~tickets[t].isUsed}

cancelTickets(s, ticketIds, userId) ==
    /\ h[s].pc = "idle"
    /\ runs < MaxRuns
    /\ runs' = runs + 1
    /\ LET frame == [Idle EXCEPT !.kind = "cancelTickets",
                                 !.req = [ticketIds |-> ticketIds, user |-> userId]] IN
       h' = [h EXCEPT ![s] =
               IF Cardinality(Cancellable(ticketIds, userId)) # Len(ticketIds)
                 THEN Thrown(frame, "BadRequest")
                 ELSE [frame EXCEPT !.pc = "cn_update"]]
    /\ UNCHANGED <<events, orders, transactions, tickets, users, faults, creditLog, pay>>

\* A variant of the cancellation that clears the rows instead of marking them.
MarkCancelledClears(s) ==
    /\ h[s].pc = "cn_update"
    /\ tickets' = [t \in 1..Len(tickets) |->
                     IF t \in Range(h[s].req.ticketIds)
                       THEN [tickets[t] EXCEPT !.isUsed = FALSE, !.cancelled = TRUE]
                       ELSE tickets[t]]
    /\ h' = [h EXCEPT ![s] = Done(h[s], "200")]
    /\ UNCHANGED <<events, orders, transactions, users, runs, faults, creditLog, pay>>

\* Ticket.updateMany({_id: {$in: ticketIds}}, {$set: {isUsed: true, cancelledAt}})
MarkCancelled(s) ==
    /\ h[s].pc = "cn_update"
    /\ tickets' = [t \in 1..Len(tickets) |->
                     IF t \in Range(h[s].req.ticketIds)
                       THEN [tickets[t] EXCEPT !.isUsed = TRUE, !.cancelled = TRUE]
                       ELSE tickets[t]]
    /\ h' = [h EXCEPT ![s] = Done(h[s], "200")]
    /\ UNCHANGED <<events, orders, transactions, users, runs, faults, creditLog, pay>>

\* ------------------------------------------------------------ TicketService.resendTicketEmail
\* getTicketById({_id, user}) (NotFound when there is no such row), then the
\* ticket mail again; nothing is written.
resendTicketEmail(s, ticketId, userId, mailOk) ==
    /\ h[s].pc = "idle"
    /\ runs < MaxRuns
    /\ runs' = runs + 1
    /\ LET frame == [Idle EXCEPT !.kind = "resend", !.req = IdCode(ticketId)] IN
       IF ~(ticketId \in 1..Len(tickets) /\ tickets[ticketId].user = userId)
         THEN /\ h' = [h EXCEPT ![s] = Thrown(frame, "NotFound")]
              /\ UNCHANGED faults
       ELSE IF mailOk
         THEN /\ h' = [h EXCEPT ![s] =
                         Done(Sent([frame EXCEPT !.made = <<ticketId>>],
                                   Mail("ticket", tickets[ticketId].order, ticketId, 0)), "200")]
              /\ UNCHANGED faults
       ELSE /\ faults < MaxFaults
            /\ faults' = faults + 1
            /\ h' = [h EXCEPT ![s] = Thrown([frame EXCEPT !.made = <<ticketId>>], "MailError")]
    /\ UNCHANGED <<events, orders, transactions, tickets, users, creditLog, pay>>

\* ------------------------------------------------------------ requests
Statuses == {"successful", "failed", "pending"}

Deltas == {-100, 0, 1}

\* The notifications about a reference: the amount is the order's total (500 for
\* an unknown reference) plus a delta.
Notifications ==
    UNION {[status : Statuses, ref : {OrderRef(n)}, id : {ChargeId(1)},
            amount : {(IF n = 0 THEN 500 ELSE orders[n].totalPrice) + d : d \in Deltas}]
           : n \in 0..Len(orders)}

\* The provider's signature of the body, a signature under another key, and the
\* provider's signature of another body.
Signatures(data) ==
    {Hmac(k, rawBody(data)) : k \in Keys}
      \cup {Hmac(Secret, rawBody([data EXCEPT !.amount = @ + 100]))}

Envelopes == [status : {"success", "successful", "failed", "pending"}, data : Notifications]

TicketCodes ==
    {IdCode(k) : k \in 1..(Len(tickets) + 1)}
      \cup {TextCode(tickets[k].order, n) : k \in 1..Len(tickets), n \in 1..MaxQty}
      \cup {UrlPiece}

TicketIdLists ==
    LET ids == 1..(Len(tickets) + 1) IN
    {<<a>> : a \in ids} \cup {<<a, b>> : a \in ids, b \in ids}

TicketRequests ==
    [user : Buyers, event : {"e1", MissingEvent}, order : 1..MaxOrders,
     price : {500}, count : {-1} \cup 1..MaxQty]

TierNames == {"", "vip", "VIP", "regular", "gold"}

OrderRequests ==
    [event : EventIds \cup {MissingEvent}, ticketType : TierNames,
     numberOfTicket : 1..MaxQty]

Init ==
    /\ events = InitEvents
    /\ orders = <<>>
    /\ transactions = <<>>
    /\ tickets = <<>>
    /\ users = [u \in Users |-> [availableBalance |-> 0, totalEarnings |-> 0]]
    /\ h = [s \in Slots |-> Idle]
    /\ runs = 0
    /\ faults = 0
    /\ creditLog = <<>>
    /\ pay = InitPay

\* Order creation alone, over every request shape.
NextOrder ==
    \/ \E user \in Buyers, data \in OrderRequests, providerOk \in BOOLEAN :
          createOrder("a", user, data, providerOk)
    \/ Finish("a")

SpecOrder == Init /\ [][NextOrder]_vars

BasicRequests ==
    {[event |-> "e1", ticketType |-> "", numberOfTicket |-> q] : q \in 1..MaxQty}
      \cup {[event |-> "e2", ticketType |-> "vip", numberOfTicket |-> 1]}

\* The steps of the ticket issuer, shared by its callers.
IssuerStep(s) ==
    \/ IssueOne(s)
    \/ IssueFails(s)
    \/ SendTickets(s)

\* The steps of the reconciliation handlers.
PayStep(s) ==
    \/ FindOrderForSuccess(s)
    \/ CompleteOrder(s)
    \/ CompleteTransaction(s)
    \/ \E balanceOk \in BOOLEAN, confirmOk \in BOOLEAN, adminOk \in BOOLEAN :
          Settle(s, balanceOk, confirmOk, adminOk)
    \/ FindOrderForFailure(s)
    \/ FailOrder(s)
    \/ FailTransaction(s)
    \/ \E providerOk \in BOOLEAN, result \in Envelopes : SweepOrder(s, providerOk, result)
    \/ SweepEnds(s)

\* The requests that start a reconciliation handler.
PayStart(s) ==
    \/ \E data \in BasicRequests : createOrder(s, "u1", data, TRUE)
    \/ \E data \in Notifications : \E signature \in Signatures(data) :
          orderTransactionCompleted(s, data, signature)
    \/ \E hasId \in BOOLEAN, providerOk \in BOOLEAN, result \in Envelopes :
          verifyPaymentStatus(s, hasId, providerOk, result)
    \/ \E inWindow \in SUBSET PendingOrders : checkPendingOrders(s, inWindow)

\* The ticket endpoints.
TicketStart(s) ==
    \/ \E body \in TicketRequests : createTickets(s, body)
    \/ \E code \in TicketCodes : verifyTicket(s, code)
    \/ \E ids \in TicketIdLists, u \in Buyers : cancelTickets(s, ids, u)

TicketStep(s) ==
    \/ MarkUsed(s)
    \/ MarkCancelled(s)

\* Reconciliation, one request at a time.
Next == PayStart("a") \/ PayStep("a") \/ IssuerStep("a") \/ Finish("a")

Spec == Init /\ [][Next]_vars

\* The ticket endpoints, one request at a time.
NextTickets == TicketStart("a") \/ TicketStep("a") \/ IssuerStep("a") \/ Finish("a")

SpecTickets == Init /\ [][NextTickets]_vars

\* Deliveries of success notifications, processed concurrently: each handler
\* gives way to the other at every await.
SuccessDeliveries(s) ==
    \E data \in Notifications :
        /\ IsSuccessStatus(data.status)
        /\ orderTransactionCompleted(s, data, Hmac(Secret, rawBody(data)))

SuccessStep(s) ==
    \/ FindOrderForSuccess(s)
    \/ CompleteOrder(s)
    \/ CompleteTransaction(s)
    \/ \E balanceOk \in BOOLEAN, confirmOk \in BOOLEAN, adminOk \in BOOLEAN :
          Settle(s, balanceOk, confirmOk, adminOk)

NextRace ==
    \/ \E data \in BasicRequests : createOrder("a", "u1", data, TRUE)
    \/ \E s \in Slots : SuccessDeliveries(s) \/ SuccessStep(s) \/ IssuerStep(s) \/ Finish(s)

SpecRace == Init /\ [][NextRace]_vars

\* The ticket endpoints processed concurrently: tickets are issued for one
\* request, then check-ins, cancellations and resends give way to each other
\* between their lookup and their write.
RaceTicket == [user |-> "u1", event |-> "e1", order |-> 1, price |-> 500, count |-> MaxQty]

TicketRace(s) ==
    \/ \E k \in 1..Len(tickets) : verifyTicket(s, IdCode(k))
    \/ \E ids \in TicketIdLists, u \in Buyers : cancelTickets(s, ids, u)
    \/ \E k \in 1..Len(tickets), u \in Buyers, mailOk \in BOOLEAN :
          resendTicketEmail(s, k, u, mailOk)
    \/ TicketStep(s)
    \/ Finish(s)

NextTicketRace ==
    \/ tickets = <<>> /\ createTickets("a", RaceTicket)
    \/ IssuerStep("a")
    \/ \E s \in Slots : TicketRace(s)

SpecTicketRace == Init /\ [][NextTicketRace]_vars

\* Sequential calls of getAccessToken as time passes.
NextToken ==
    \/ getAccessToken
    \/ \E expires_in \in Lifetimes : authenticate(expires_in)
    \/ authenticateFails
    \/ \E d \in Ticks : Elapse(d)

SpecToken == Init /\ [][NextToken]_vars

\* The bodies of PATCH /:id: a new flat price, or a new list of tiers.
EventEdits ==
    {[price |-> 700], [ticketTypes |-> <<[name |-> "VIP", price |-> 900]>>]}

\* Reconciliation with event edits by the owner or a buyer in between, one
\* request at a time.
NextEdit ==
    \/ \E userId \in {Owner, "u1"}, eventId \in {"e1", "e2", MissingEvent},
          eventData \in EventEdits :
          updateEventById("a", userId, eventId, eventData)
    \/ PayStart("a")
    \/ PayStep("a")
    \/ IssuerStep("a")
    \/ Finish("a")

SpecEdit == Init /\ [][NextEdit]_vars

\* The periodic sweep over several pending orders: the state after SweepOrders
\* calls of createOrder for one ticket of e1 each, then sweeps one at a time.
SweepRequest == [event |-> "e1", ticketType |-> "", numberOfTicket |-> 1]

InitSweep ==
    /\ events = InitEvents
    /\ orders = [n \in 1..SweepOrders |-> NewOrder("u1", SweepRequest,
                    OrderPrice(InitEvents["e1"], "", 1).price)]
    /\ transactions = [n \in 1..SweepOrders |-> NewTransaction("u1", n, orders[n])]
    /\ tickets = <<>>
    /\ users = [u \in Users |-> [availableBalance |-> 0, totalEarnings |-> 0]]
    /\ h = [s \in Slots |-> Idle]
    /\ runs = 0
    /\ faults = 0
    /\ creditLog = <<>>
    /\ pay = InitPay

NextSweep ==
    \/ \E inWindow \in SUBSET PendingOrders : checkPendingOrders("a", inWindow)
    \/ PayStep("a")
    \/ IssuerStep("a")
    \/ Finish("a")

SpecSweep == InitSweep /\ [][NextSweep]_vars

\* ============================================================ properties
\* The tickets of an order, and the number of times its settlement was credited.
TicketsOf(rows, n) == {t \in 1..Len(rows) : rows[t].order = n}

CreditsOf(log, n) == Cardinality({i \in 1..Len(log) : log[i] = n})

\* A delivery that passed the signature check and reports success.
IsSuccessDelivery(frame) == frame.kind = "webhook" /\ IsSuccessStatus(frame.req.status)

C2_AtomicCompletion ==
    \A n \in 1..Len(orders) :
        /\ Cardinality(TicketsOf(tickets, n)) <= orders[n].numberOfTicket
        /\ CreditsOf(creditLog, n) <= 1

C4_SignatureRejection ==
    [][LET f == h["a"]
           g == h'["a"] IN
       (/\ f.pc = "idle"
        /\ g.kind = "webhook"
        /\ g.sig # Hmac(Secret, rawBody(g.req)))
       => /\ orders' = orders /\ transactions' = transactions
          /\ tickets' = tickets /\ users' = users
          /\ g.pc = "done" /\ g.res = "unauthorized"
          /\ g.order = <<>> /\ g.made = <<>> /\ g.mails = <<>>
      ]_vars

\* A notification that would have completed a pending order, signed with
\* another key, was rejected.
C4_Witness ==
    LET f == h["a"] IN
    /\ IsSuccessDelivery(f) /\ f.pc = "done" /\ f.res = "unauthorized"
    /\ f.sig = Hmac("other-key", rawBody(f.req))
    /\ OrderExists(f.req.ref)
    /\ orders[f.req.ref[2]].status = ORDER_STATUS.PENDING
    /\ f.req.amount = orders[f.req.ref[2]].totalPrice
    /\ tickets = <<>>

\* C5: a success delivery with amount T for a pending order of quantity q and
\* total T, processed without a collaborator failing, leaves the order completed
\* with its payment reference, the order's transaction successful, exactly q
\* tickets for the order, and the owner's availableBalance and totalEarnings
\* each increased by amount * (100 - fee) / 100.
C5_SuccessPathResult ==
    [][LET f == h["a"]
           g == h'["a"] IN
       (/\ IsSuccessDelivery(g)
        /\ f.pc = "hs_settle" /\ g.pc = "done" /\ g.res = "200"
        /\ g.order[1].status = ORDER_STATUS.PENDING
        /\ g.req.amount = g.order[1].totalPrice
        /\ faults' = 0)
       => LET n == g.order[1].id
              owner == g.order[1].eventUser
              earned == g.req.amount * (100 - PlatformFeePercentage) IN
          /\ orders'[n].status = ORDER_STATUS.COMPLETED
          /\ orders'[n].paymentReference = <<g.req.id>>
          /\ \E i \in 1..Len(transactions') :
                /\ transactions'[i].order = n
                /\ transactions'[i].status = TRANSACTION_STATUS.SUCCESSFUL
          /\ Cardinality(TicketsOf(tickets', n)) = g.order[1].numberOfTicket
          /\ users'[owner].availableBalance = users[owner].availableBalance + earned
          /\ users'[owner].totalEarnings = users[owner].totalEarnings + earned
      ]_vars

\* C6: an issuance that returns has created count tickets whose QR payloads are
\* <order>-1 .. <order>-count in order, and no two tickets of the store carry
\* the same QR payload.
C6_QrPayloadsUnique ==
    /\ \A s \in Slots :
          (h[s].pc = "hs_settle" \/ (h[s].kind = "createTickets" /\ h[s].res = "200"))
          => /\ Len(h[s].made) = h[s].ct[1].count
             /\ \A k \in 1..Len(h[s].made) :
                   Payload(tickets[h[s].made[k]].qrCode)
                     = uniqueIdentifier(h[s].ct[1].order, k)
    /\ \A i \in 1..Len(tickets), j \in 1..Len(tickets) :
          i # j => Payload(tickets[i].qrCode) # Payload(tickets[j].qrCode)

\* The tickets a presented code designates: the ticket with that _id, or the
\* tickets whose QR image shows that text.
Designated(code) ==
    {t \in 1..Len(tickets) :
        \/ code.kind = "id" /\ code.id = t
        \/ code.kind = "text" /\ Payload(tickets[t].qrCode) = code.text}

\* C7: verifyTicket with the _id or the QR payload of an unused ticket goes on
\* to mark that ticket used and nothing else; with the code of a used ticket it
\* fails Conflict; with a code that designates no ticket it fails NotFound; a
\* failed verification changes no ticket.
C7_CheckInStateMachine ==
    [][LET f == h["a"]
           g == h'["a"] IN
       /\ (f.pc = "idle" /\ g.kind = "verifyTicket" /\ g.req.kind \in {"id", "text"})
          => LET hit == Designated(g.req) IN
             /\ tickets' = tickets
             /\ hit = {} => (g.pc = "done" /\ g.err = "NotFound")
             /\ (\E t \in hit : ~tickets[t].isUsed)
                  => (g.pc = "vt_save" /\ g.made[1] \in hit /\ ~tickets[g.made[1]].isUsed)
             /\ (hit # {} /\ \A t \in hit : tickets[t].isUsed)
                  => (g.pc = "done" /\ g.err = "Conflict")
       /\ f.pc = "vt_save"
          => /\ g.pc = "done" /\ g.res = "200"
             /\ tickets' = [tickets EXCEPT ![f.made[1]].isUsed = TRUE]
      ]_vars

Persisted(total) ==
    /\ Len(orders') = Len(orders) + 1
    /\ orders'[Len(orders')].totalPrice = total
    /\ orders'[Len(orders')].status = ORDER_STATUS.PENDING

\* C9: createOrder for an event with flat price p and no tier requested persists
\* a pending order of total p * q; with a tier name that matches a tier of price
\* t (whatever the case of the letters) it persists one of total t * q; with a
\* tier name that matches no tier it fails NotFound, and for an event with
\* neither a tier nor a flat price it fails, both without persisting an order.
C9_CreateOrderPricing ==
    [][LET f == h["a"]
           g == h'["a"] IN
       (f.pc = "idle" /\ g.kind = "createOrder" /\ g.req.event \in EventIds)
       => LET e == events[g.req.event]
              q == g.req.numberOfTicket
              name == g.req.ticketType
              matching == {i \in 1..Len(e.ticketTypes) :
                             ToLowerCase(e.ticketTypes[i].name) = ToLowerCase(name)} IN
          /\ (name = "" /\ e.price # NoPrice) => Persisted(e.price * q)
          /\ (name # "" /\ matching # {})
                => \E i \in matching : Persisted(e.ticketTypes[i].price * q)
          /\ (name # "" /\ matching = {}) => (g.res = "NotFound" /\ orders' = orders)
          /\ (e.price = NoPrice /\ e.ticketTypes = <<>>)
                => (g.res \notin {"ok", "ProviderError"} /\ orders' = orders)
      ]_vars

\* C10: the status of an order changes only from pending to completed or from
\* pending to failed.
C10_OrderLifecycle ==
    [][\A n \in 1..Len(orders) :
          orders'[n].status # orders[n].status
            => /\ orders[n].status = ORDER_STATUS.PENDING
               /\ orders'[n].status \in {ORDER_STATUS.COMPLETED, ORDER_STATUS.FAILED}
      ]_vars

\* C11: the status of a transaction changes only from pending to successful,
\* failed or cancelled, and never changes afterwards.
C11_TransactionMonotone ==
    [][\A i \in 1..Len(transactions) :
          transactions'[i].status # transactions[i].status
            => /\ transactions[i].status = TRANSACTION_STATUS.PENDING
               /\ transactions'[i].status \in {TRANSACTION_STATUS.SUCCESSFUL,
                                               TRANSACTION_STATUS.FAILED,
                                               TRANSACTION_STATUS.CANCELLED}
      ]_vars

\* C12: whenever a ticket row is written, the order it references exists and is
\* completed at that moment.
C12_TicketsOnlyForPaidOrders ==
    [][Len(tickets') > Len(tickets)
         => LET t == tickets'[Len(tickets')] IN
            /\ t.order \in 1..Len(orders)
            /\ orders[t.order].status = ORDER_STATUS.COMPLETED
      ]_vars

\* C13: the manual verification hands the polled payment to the handler the
\* webhook hands a notification of the same status to: the success handler for
\* successful/succeeded, the failure handler for failed/cancelled, and none
\* for any other status; both paths then run the same handlers on the same
\* orders, transactions, tickets and balances.
C13_PollingMatchesWebhook ==
    [][LET f == h["a"]
           g == h'["a"] IN
       (/\ f.pc = "idle"
        /\ g.kind = "manual"
        /\ g.res # "BadRequest"
        /\ g.err = "none")
       => /\ IsSuccessStatus(g.req.status) => g.pc = "hs_find"
          /\ IsFailureStatus(g.req.status) => g.pc = "hf_find"
          /\ (~IsSuccessStatus(g.req.status) /\ ~IsFailureStatus(g.req.status))
                => (g.pc = "done" /\ g.res = "200")
      ]_vars

\* C14 as stated: in the sweep, an error while polling or reconciling one order
\* leaves that order pending: when an iteration has ended with an error, the
\* order it was reconciling is pending; and the sweep goes on to its end
\* without raising.
C14_SweepIsolation ==
    LET f == h["a"] IN
    f.kind = "sweep" =>
      /\ f.res = "none"
      /\ (f.pc = "sw_next" /\ f.err # "none" /\ f.order # <<>>)
            => orders[f.order[1].id].status = ORDER_STATUS.PENDING

\* C14 amended: a provider failure while polling one order changes no order, no
\* transaction and no ticket; an error while polling or reconciling one order
\* does not end the sweep: every step of a sweep keeps the remaining selected
\* orders, takes them one at a time, returns to the loop after a failure, ends
\* only when none is left, and never raises.
C14_SweepIsolationAmended ==
    [][LET f == h["a"]  g == h'["a"] IN
       (f.kind = "sweep" /\ f.pc # "done") =>
         /\ g.kind = "sweep"
         /\ g.res = "none"
         /\ g.todo = IF f.pc = "sw_next" /\ f.todo # <<>> THEN Tail(f.todo) ELSE f.todo
         /\ g.pc = "done" => (f.pc = "sw_next" /\ f.todo = <<>>)
         /\ faults' # faults => g.pc = "sw_next"
         /\ (f.pc = "sw_next" /\ faults' # faults)
               => /\ g.err = "UnableToComplete"
                  /\ UNCHANGED <<orders, transactions, tickets, users>>
      ]_vars

\* The first order of a sweep met an error, stayed pending, and the sweep has
\* polled its last order.
C14_Witness ==
    /\ h["a"].kind = "sweep"
    /\ h["a"].pc = "hs_find"
    /\ h["a"].todo = <<>>
    /\ h["a"].req.ref = OrderRef(2)
    /\ runs = 1
    /\ faults = 1
    /\ orders[1].status = ORDER_STATUS.PENDING

\* C15: a notification with a valid signature whose processing ends without an
\* exception (completed, or skipped for an unknown order, a completed order, an
\* amount mismatch, a failure without an order, a non-terminal status) is
\* answered 200; any other answer is the rejection of an invalid signature or
\* follows an exception.
C15_Acknowledgment ==
    LET f == h["a"] IN
    (f.kind = "webhook" /\ f.pc = "done") =>
      /\ f.res \in {"200", "unauthorized", "error"}
      /\ f.res = "unauthorized" <=> f.sig # Hmac(Secret, rawBody(f.req))
      /\ f.res = "error" <=> (f.sig = Hmac(Secret, rawBody(f.req)) /\ f.err # "none")
      /\ f.err # "none" => faults > 0

\* A validly signed success notification for an unknown order was skipped with
\* an alert to the admin and answered 200.
C15_Witness ==
    LET f == h["a"] IN
    /\ f.kind = "webhook" /\ f.pc = "done" /\ f.res = "200"
    /\ f.sig = Hmac(Secret, rawBody(f.req))
    /\ IsSuccessStatus(f.req.status)
    /\ ~OrderExists(f.req.ref)
    /\ \E i \in 1..Len(f.mails) : f.mails[i].template = "missing-order-alert"

\* C16: when the balance update or the buyer's confirmation mail fails during
\* success handling, the order stays completed, the tickets issued stay, ticket
\* creation is not entered again, and the handler returns normally (the webhook
\* answers 200); only a failure of the admin's notification leaves the handler
\* as an error.
C16_SettlementFireAndLog ==
    [][LET f == h["a"]  g == h'["a"] IN
       (f.pc = "hs_settle" /\ faults' > faults) =>
         /\ orders' = orders
         /\ orders[f.order[1].id].status = ORDER_STATUS.COMPLETED
         /\ tickets' = tickets
         /\ g.made = f.made
         /\ g.pc # "ct_loop"
         /\ g.err = "none" =>
               IF f.kind = "sweep" THEN g.pc = "sw_next" ELSE g.pc = "done" /\ g.res = "200"
         /\ (/\ faults' = faults + 1
             /\ \/ creditLog' = creditLog
                \/ \A i \in 1..Len(g.mails) : g.mails[i].template # "order-confirmation")
            => g.err = "none"
      ]_vars

\* A webhook delivery completed an order and issued its tickets, the balance
\* update failed, and the delivery was answered 200.
C16_Witness ==
    LET f == h["a"] IN
    /\ f.kind = "webhook" /\ f.pc = "done" /\ f.res = "200"
    /\ f.made # <<>>
    /\ faults = 1
    /\ creditLog = <<>>
    /\ orders[f.order[1].id].status = ORDER_STATUS.COMPLETED
    /\ \E i \in 1..Len(tickets) : tickets[i].order = f.order[1].id

\* C17: when a webhook delivery wrote all the tickets of its order and the ticket
\* mail then failed, the tickets are in the store and the order's status is
\* paid-failed-email; when the issuance itself failed, the order's status is
\* paid-failed-ticketing.
C17_TicketEmailFailureRecorded ==
    LET f == h["a"] IN
    (f.kind = "webhook" /\ f.pc = "done" /\ f.order # <<>> /\ f.err # "none") =>
      /\ (/\ f.err = "MailError"
          /\ Len(f.made) = f.order[1].numberOfTicket
          /\ \A i \in 1..Len(f.mails) : f.mails[i].template # "ticket")
         => /\ \A i \in 1..Len(f.made) :
                  /\ f.made[i] \in 1..Len(tickets)
                  /\ tickets[f.made[i]].order = f.order[1].id
            /\ orders[f.order[1].id].status = ORDER_STATUS.PAID_FAILED_EMAIL
      /\ f.err \in {"PdfError", "CreateError"}
         => orders[f.order[1].id].status = ORDER_STATUS.PAID_FAILED_TICKETING

\* C18: the issuer returns normally only when exactly count ticket rows, each
\* unused, were written for the order; a missing event or buyer is NotFound with
\* no row written; a failure inside the loop or of the mails leaves the issuer
\* as an error and the loop is not continued.
C18_IssuanceAllOrError ==
    [][LET f == h["a"]  g == h'["a"] IN
       /\ (/\ f.pc = "ct_loop"
           /\ g.err = "none"
           /\ g.pc \in {"hs_settle", "done"})
          => /\ Len(g.made) = f.ct[1].count
             /\ Cardinality(Range(g.made)) = f.ct[1].count
             /\ \A i \in 1..Len(g.made) :
                   /\ g.made[i] \in 1..Len(tickets')
                   /\ tickets'[g.made[i]].order = f.ct[1].order
                   /\ tickets'[g.made[i]].isUsed = FALSE
       /\ (f.pc # "ct_loop" /\ g.err = "NotFound")
          => /\ tickets' = tickets
             /\ g.made = <<>>
       /\ (f.pc = "ct_loop" /\ faults' > faults)
          => /\ g.err # "none"
             /\ g.pc # "ct_loop"
       /\ (f.pc = "ct_loop" /\ g.pc = "ct_loop")
          => /\ Len(tickets') = Len(tickets) + 1
             /\ g.made = Append(f.made, Len(tickets'))
      ]_vars

\* POST /create-ticket for two tickets has returned them.
C18_Witness ==
    LET f == h["a"] IN
    /\ f.kind = "createTickets" /\ f.pc = "done" /\ f.res = "200"
    /\ f.ct[1].count = 2
    /\ Len(f.made) = 2
    /\ \A i \in 1..2 : tickets[f.made[i]].order = f.ct[1].order

\* C19: a valid failed or cancelled notification for an existing pending order
\* leaves the order and the transaction of that reference failed, each with the
\* failure reason derived from the notification, and the buyer is sent one
\* failure notice; when no order has the reference nothing is changed, no mail
\* is sent and the handler returns normally.
C19_FailurePath ==
    [][LET f == h["a"]  g == h'["a"] IN
       /\ (/\ g.kind = "webhook"
           /\ f.pc = "hf_txn" /\ g.pc = "done" /\ g.res = "200"
           /\ g.order[1].status = ORDER_STATUS.PENDING)
          => LET n == g.order[1].id IN
             /\ orders'[n].status = ORDER_STATUS.FAILED
             /\ orders'[n].failureReason = <<failureReason(g.req)>>
             /\ \E i \in 1..Len(transactions') :
                   /\ transactions'[i].reference = g.req.ref
                   /\ transactions'[i].status = TRANSACTION_STATUS.FAILED
                   /\ transactions'[i].failureReason = <<failureReason(g.req)>>
             /\ Cardinality({i \in 1..Len(g.mails) : g.mails[i].template = "payment-failed"}) = 1
       /\ (/\ g.kind = "webhook"
           /\ f.pc = "hf_find"
           /\ ~OrderExists(f.req.ref))
          => /\ UNCHANGED <<orders, transactions, tickets, users>>
             /\ g.mails = <<>>
             /\ g.err = "none"
             /\ g.pc = "done" /\ g.res = "200"
      ]_vars

\* C20: every notification or poll result applied to a transaction appends one
\* entry to its logs and keeps the entries it had; no step removes or rewrites
\* an entry.
C20_LogAppendOnly ==
    [][\A i \in 1..Len(transactions) :
          LET old == transactions[i].logs
              new == transactions'[i].logs IN
          /\ Len(new) >= Len(old)
          /\ SubSeq(new, 1, Len(old)) = old
          /\ transactions'[i] # transactions[i] => Len(new) = Len(old) + 1
      ]_vars

\* C21: every ticket issued for an order carries the unit price the order's
\* total was computed from, whatever was edited on the event since:
\* ticket price * numberOfTicket = totalPrice.
C21_HistoricalPricing ==
    \A i \in 1..Len(tickets) :
        tickets[i].order \in 1..Len(orders)
          => tickets[i].price * orders[tickets[i].order].numberOfTicket
               = orders[tickets[i].order].totalPrice

C23_UsedIsTerminal ==
    [][/\ Len(tickets') >= Len(tickets)
       /\ \A t \in 1..Len(tickets) :
             /\ tickets[t].isUsed => tickets'[t].isUsed
             /\ tickets'[t].order = tickets[t].order
             /\ tickets'[t].qrCode = tickets[t].qrCode
      ]_vars

\* A ticket was checked in while a cancellation that had found it unused was
\* waiting to write; the cancellation has written and the ticket is still used.
C23_Witness ==
    /\ Len(tickets) = MaxQty
    /\ h["a"].kind = "verifyTicket" /\ h["a"].pc = "done" /\ h["a"].res = "200"
    /\ h["b"].kind = "cancelTickets" /\ h["b"].pc = "done" /\ h["b"].res = "200"
    /\ h["a"].made[1] \in Range(h["b"].req.ticketIds)
    /\ tickets[h["a"].made[1]].isUsed

\* C24: in every state each transaction's reference is the id of its order, and
\* no two transactions have the same reference.
C24_TransactionReference ==
    /\ \A i \in 1..Len(transactions) :
          transactions[i].reference = OrderRef(transactions[i].order)
    /\ \A i, j \in 1..Len(transactions) :
          transactions[i].reference = transactions[j].reference => i = j

\* C25: no step changes the totalPrice, the numberOfTicket, the ticket-type
\* snapshot, the buyer or the event of an order that is in the store, and no
\* step removes an order.
C25_OrderTotalFrozen ==
    [][/\ Len(orders') >= Len(orders)
       /\ \A n \in 1..Len(orders) :
             /\ orders'[n].totalPrice = orders[n].totalPrice
             /\ orders'[n].numberOfTicket = orders[n].numberOfTicket
             /\ orders'[n].ticketType = orders[n].ticketType
             /\ orders'[n].user = orders[n].user
             /\ orders'[n].event = orders[n].event
      ]_vars

\* An order of the VIP tier at 300 was completed by a payment of 301 after the
\* owner had replaced the event's tiers; it still has its total and its snapshot.
C25_Witness ==
    /\ Len(orders) = 1
    /\ orders[1].event = "e2"
    /\ orders[1].status = ORDER_STATUS.COMPLETED
    /\ orders[1].totalPrice = 300
    /\ orders[1].ticketType = [name |-> "VIP", price |-> 300]
    /\ events["e2"].ticketTypes = <<[name |-> "VIP", price |-> 900]>>
    /\ h["a"].kind = "webhook" /\ h["a"].pc = "done" /\ h["a"].req.amount = 301

\* C26: a call of getAccessToken authenticates exactly when no token is cached
\* or at least expiresIn seconds have passed since the cached one was stored;
\* otherwise it returns the cached token and nothing is stored; and a token
\* returned was stored less than expiresIn seconds before the call's expiry
\* check (or after it).
C26_TokenCache ==
    [][LET p == pay  q == pay' IN
       /\ (p.pc = "idle" /\ q.now = p.now)
          => /\ q.pc = "auth"
                  <=> \/ p.accessToken = <<>>
                      \/ p.now - p.lastTokenRefreshTime[1] >= p.expiresIn[1] * 1000
             /\ q.pc # "auth"
                  => /\ q.accessToken = p.accessToken
                     /\ q.lastTokenRefreshTime = p.lastTokenRefreshTime
                     /\ q.out # <<>>
                     /\ q.out[1].token = p.accessToken[1]
       /\ q.issued # p.issued => (p.pc = "auth" /\ q.issued = p.issued + 1)
       /\ q.out # <<>>
          => q.out[1].checkedAt - q.out[1].issuedAt < q.out[1].expiresIn * 1000
      ]_vars

\* After the first token had expired a second one was stored, and a call half
\* a second later returned it from the cache.
C26_Witness ==
    /\ pay.pc = "idle"
    /\ pay.issued = 2
    /\ pay.out # <<>>
    /\ pay.out[1].token = 2
    /\ pay.out[1].issuedAt = pay.out[1].checkedAt - 500

\* C27: when no handler is in progress, every completed order has exactly
\* numberOfTicket tickets; checked in the states where a webhook delivery, a
\* manual verification or a sweep has just returned normally, which include
\* the redeliveries and sweeps that run after an issuance has failed.
C27_PaidOrdersFulfilled ==
    LET f == h["a"] IN
    (/\ f.kind \in {"webhook", "manual", "sweep"}
     /\ f.pc = "done"
     /\ f.res \in {"200", "none"}
     /\ f.err = "none")
    => \A n \in 1..Len(orders) :
          orders[n].status = ORDER_STATUS.COMPLETED
            => Cardinality(TicketsOf(tickets, n)) = orders[n].numberOfTicket

\* C28: of two verifyTicket calls for the same ticket that are in progress
\* together, at most one returns a successful verification.
C28_SingleAdmission ==
    ~ /\ h["a"].kind = "verifyTicket" /\ h["a"].pc = "done" /\ h["a"].res = "200"
      /\ h["b"].kind = "verifyTicket" /\ h["b"].pc = "done" /\ h["b"].res = "200"
      /\ h["a"].made = h["b"].made

C30_CancelExcludesCheckIn ==
    \A s \in Slots, r \in Slots :
        ~ /\ h[s].kind = "verifyTicket" /\ h[s].pc = "done" /\ h[s].res = "200"
          /\ h[r].kind = "cancelTickets" /\ h[r].pc = "done" /\ h[r].res = "200"
          /\ \E i \in 1..Len(h[r].req.ticketIds) : h[r].req.ticketIds[i] = h[s].made[1]

====
